---- MODULE Spec2Model ----
(***************************************************************************)
(* Model of the substitution engine of src/lib.rs: the three dialect       *)
(* patterns (bash, docker, cmd) as matchers over sequences of characters,  *)
(* the replacer closure called once per match, the value sources (process  *)
(* environment, HashMap, any other implementor of ValueProivder) and the   *)
(* error aggregation that follows replace_all.                             *)
(*                                                                         *)
(* A text is a sequence of one-character strings.  An Option is a sequence *)
(* of length at most one: <<>> is None and <<x>> is Some(x).               *)
(***************************************************************************)
EXTENDS Integers, Sequences, FiniteSets, TLC

\* Number of fragments an input text is assembled from.
MaxFrags == 2

\* The NUL character.
Nul == "NUL"

----------------------------------------------------------------------------
\* Result<Cow<str>, Error>

Ok(v) == [tag |-> "Ok", value |-> v, error |-> "None"]

Err(e) == [tag |-> "Err", value |-> <<>>, error |-> e]

Error == {"NotPresent", "InvalidName", "InvalidValue"}

----------------------------------------------------------------------------
\* OnNotPresent and Config

OnNotPresentError == [kind |-> "Error", text |-> <<>>]

OnNotPresentPassthrough == [kind |-> "Passthrough", text |-> <<>>]

OnNotPresentDefault(text) == [kind |-> "Default", text |-> text]

bash ==
    [pattern |-> "bash",
     on_not_present |-> OnNotPresentDefault(<<>>),
     escape |-> << << <<"\\", "$">>, <<"$">> >> >>]

docker ==
    [pattern |-> "docker",
     on_not_present |-> OnNotPresentDefault(<<>>),
     escape |-> << << <<"$">>, <<"$", "$">> >> >>]

cmd ==
    [pattern |-> "cmd",
     on_not_present |-> OnNotPresentDefault(<<>>),
     escape |-> << << <<"$">>, <<"$", "$">> >> >>]

BASH == bash

----------------------------------------------------------------------------
\* The patterns.  At(s, i) is the character at i, or a value that is no
\* character when i lies outside the text (what a lookbehind at the start
\* and a match attempt at the end of the text see).

At(s, i) == IF i >= 1 /\ i <= Len(s) THEN s[i] ELSE "EOF"

Span(s, i, j) == <<SubSeq(s, i, j)>>

\* \w also accepts '='.
IsWordChar_Eq(c) == c \in {"a", "b", "="}

\* \w : the word characters of the alphabet.
IsWordChar(c) == c \in {"a", "b"}

\* \w+ is greedy: the index of the last character of the run that starts at i.
RECURSIVE WordEnd(_, _)
WordEnd(s, i) ==
    IF IsWordChar(At(s, i + 1)) THEN WordEnd(s, i + 1) ELSE i

NoMatch == [found |-> FALSE, start |-> 0, end |-> 0, groups |-> <<>>]

Match(s, i, e, groups) ==
    [found |-> TRUE, start |-> i, end |-> e,
     groups |-> <<Span(s, i, e)>> \o groups]

\* (?<!\\)\$(?:(?<name>\w+)|(?:{(?<name>\w+)(?:-(?<default>\w+))?}))
\* groups: 0 the match, 1 name ($NAME), 2 name (${NAME...}), 3 default.
BashMatchAt(s, i) ==
    IF At(s, i) # "$" \/ At(s, i - 1) = "\\" THEN NoMatch
    ELSE IF IsWordChar(At(s, i + 1)) THEN
        LET e == WordEnd(s, i + 1)
        IN  Match(s, i, e, <<Span(s, i + 1, e), <<>>, <<>>>>)
    ELSE IF At(s, i + 1) = "{" /\ IsWordChar(At(s, i + 2)) THEN
        LET e == WordEnd(s, i + 2)
        IN  IF /\ At(s, e + 1) = "-"
               /\ IsWordChar(At(s, e + 2))
               /\ At(s, WordEnd(s, e + 2) + 1) = "}"
            THEN LET d == WordEnd(s, e + 2)
                 IN  Match(s, i, d + 1,
                           <<<<>>, Span(s, i + 2, e), Span(s, e + 2, d)>>)
            ELSE IF At(s, e + 1) = "}"
            THEN Match(s, i, e + 1, <<<<>>, Span(s, i + 2, e), <<>>>>)
            ELSE NoMatch
    ELSE NoMatch

\* (?<!\$)\$(?<name>\w+)
DockerMatchAt(s, i) ==
    IF At(s, i) # "$" \/ At(s, i - 1) = "$" THEN NoMatch
    ELSE IF IsWordChar(At(s, i + 1)) THEN
        LET e == WordEnd(s, i + 1)
        IN  Match(s, i, e, <<Span(s, i + 1, e)>>)
    ELSE NoMatch

\* (?<!\%)%(?<name>\w+)%
CmdMatchAt(s, i) ==
    IF At(s, i) # "%" \/ At(s, i - 1) = "%" THEN NoMatch
    ELSE IF IsWordChar(At(s, i + 1)) /\ At(s, WordEnd(s, i + 1) + 1) = "%" THEN
        LET e == WordEnd(s, i + 1)
        IN  Match(s, i, e + 1, <<Span(s, i + 1, e)>>)
    ELSE NoMatch

MatchAt(pattern, s, i) ==
    CASE pattern = "bash" -> BashMatchAt(s, i)
      [] pattern = "docker" -> DockerMatchAt(s, i)
      [] pattern = "cmd" -> CmdMatchAt(s, i)

\* The leftmost match that starts at or after from; the lookbehind still sees
\* the characters before from.
RECURSIVE FindMatch(_, _, _)
FindMatch(pattern, s, from) ==
    IF from > Len(s) THEN NoMatch
    ELSE IF MatchAt(pattern, s, from).found THEN MatchAt(pattern, s, from)
    ELSE FindMatch(pattern, s, from + 1)

----------------------------------------------------------------------------
\* Value sources.  A provider is [kind, store]:
\*   Env      store maps a variable name to [state, value], state one of
\*            "Unset", "Unicode", "NotUnicode";
\*   HashMap  store is the map itself, from its keys to their values;
\*   Other    any other implementor of ValueProivder: store maps a name to
\*            the Result its get returns.

invalid_varible_name_pattern(char) == char = "=" \/ char = Nul

\* std::env::var
EnvVar(store, name) ==
    IF name \in DOMAIN store /\ store[name].state # "Unset"
    THEN IF store[name].state = "Unicode" THEN Ok(store[name].value)
         ELSE Err("NotUnicode")
    ELSE Err("NotPresent")

EnvGet(store, name) ==
    IF \E i \in 1..Len(name) : invalid_varible_name_pattern(name[i])
    THEN Err("InvalidName")
    ELSE LET var == EnvVar(store, name)
         IN  IF var.tag = "Ok" THEN Ok(var.value)
             ELSE IF var.error = "NotPresent" THEN Err("NotPresent")
             ELSE Err("InvalidValue")

HashMapGet(store, name) ==
    IF name \in DOMAIN store THEN Ok(store[name]) ELSE Err("NotPresent")

OtherGet(store, name) ==
    IF name \in DOMAIN store THEN store[name] ELSE Err("NotPresent")

Get(provider, name) ==
    CASE provider.kind = "Env" -> EnvGet(provider.store, name)
      [] provider.kind = "HashMap" -> HashMapGet(provider.store, name)
      [] provider.kind = "Other" -> OtherGet(provider.store, name)

----------------------------------------------------------------------------
\* The replacer closure of substitute.

\* captures.iter().flatten().collect(): the groups that took part in the match.
RECURSIVE Flatten(_)
Flatten(groups) ==
    IF groups = <<>> THEN <<>> ELSE Head(groups) \o Flatten(Tail(groups))

CaptureAll(groups) == Flatten(groups)[1]

\* Group 1 alone, without the flattening.
CaptureName_Group1(groups) ==
    IF groups[2] # <<>> THEN groups[2][1] ELSE <<>>

CaptureName(groups) == Flatten(groups)[2]

CaptureDefault(groups) ==
    IF Len(Flatten(groups)) >= 3 THEN <<Flatten(groups)[3]>> ELSE <<>>

Replaced(error, result) == [error |-> error, result |-> result]

\* The policy is consulted before the inline default.
Replacer_PolicyFirst(config, provider, groups) ==
    LET all == CaptureAll(groups)
        default == CaptureDefault(groups)
        value == Get(provider, CaptureName(groups))
    IN  IF value.tag = "Ok" THEN Replaced(<<>>, value.value)
        ELSE IF value.error = "NotPresent" THEN
            CASE config.on_not_present.kind = "Error" ->
                    Replaced(<<"NotPresent">>, <<>>)
              [] config.on_not_present.kind = "Passthrough" ->
                    Replaced(<<>>, all)
              [] config.on_not_present.kind = "Default" ->
                    IF default # <<>> THEN Replaced(<<>>, default[1])
                    ELSE Replaced(<<>>, <<>>)
        ELSE Replaced(<<value.error>>, <<>>)

\* Policy Error records nothing.
Replacer_ErrorSilent(config, provider, groups) ==
    LET all == CaptureAll(groups)
        default == CaptureDefault(groups)
        value == Get(provider, CaptureName(groups))
    IN  IF value.tag = "Ok" THEN Replaced(<<>>, value.value)
        ELSE IF value.error = "NotPresent" THEN
            IF default # <<>> THEN Replaced(<<>>, default[1])
            ELSE CASE config.on_not_present.kind = "Error" ->
                        Replaced(<<>>, <<>>)
                   [] config.on_not_present.kind = "Passthrough" ->
                        Replaced(<<>>, all)
                   [] config.on_not_present.kind = "Default" ->
                        Replaced(<<>>, <<>>)
        ELSE Replaced(<<value.error>>, <<>>)

\* Passthrough echoes the name, not the whole match.
Replacer_PassName(config, provider, groups) ==
    LET all == CaptureAll(groups)
        default == CaptureDefault(groups)
        value == Get(provider, CaptureName(groups))
    IN  IF value.tag = "Ok" THEN Replaced(<<>>, value.value)
        ELSE IF value.error = "NotPresent" THEN
            IF default # <<>> THEN Replaced(<<>>, default[1])
            ELSE CASE config.on_not_present.kind = "Error" ->
                        Replaced(<<"NotPresent">>, <<>>)
                   [] config.on_not_present.kind = "Passthrough" ->
                        Replaced(<<>>, CaptureName(groups))
                   [] config.on_not_present.kind = "Default" ->
                        Replaced(<<>>, <<>>)
        ELSE Replaced(<<value.error>>, <<>>)

\* Policy Default emits its fallback text.
Replacer_EmitFallback(config, provider, groups) ==
    LET all == CaptureAll(groups)
        default == CaptureDefault(groups)
        value == Get(provider, CaptureName(groups))
    IN  IF value.tag = "Ok" THEN Replaced(<<>>, value.value)
        ELSE IF value.error = "NotPresent" THEN
            IF default # <<>> THEN Replaced(<<>>, default[1])
            ELSE CASE config.on_not_present.kind = "Error" ->
                        Replaced(<<"NotPresent">>, <<>>)
                   [] config.on_not_present.kind = "Passthrough" ->
                        Replaced(<<>>, all)
                   [] config.on_not_present.kind = "Default" ->
                        Replaced(<<>>, config.on_not_present.text)
        ELSE Replaced(<<value.error>>, <<>>)

\* The inline default rescues every failure.
Replacer_DefaultRescues(config, provider, groups) ==
    LET all == CaptureAll(groups)
        default == CaptureDefault(groups)
        value == Get(provider, CaptureName(groups))
    IN  IF value.tag = "Ok" THEN Replaced(<<>>, value.value)
        ELSE IF default # <<>> THEN Replaced(<<>>, default[1])
        ELSE IF value.error = "NotPresent" THEN
            CASE config.on_not_present.kind = "Error" ->
                    Replaced(<<"NotPresent">>, <<>>)
              [] config.on_not_present.kind = "Passthrough" ->
                    Replaced(<<>>, all)
              [] config.on_not_present.kind = "Default" ->
                    Replaced(<<>>, <<>>)
        ELSE Replaced(<<value.error>>, <<>>)

\* The closure of substitute (lines 75-121).
Replacer(config, provider, groups) ==
    LET all == CaptureAll(groups)
        default == CaptureDefault(groups)
        value == Get(provider, CaptureName(groups))
    IN  IF value.tag = "Ok" THEN Replaced(<<>>, value.value)
        ELSE IF value.error = "NotPresent" THEN
            IF default # <<>> THEN Replaced(<<>>, default[1])
            ELSE CASE config.on_not_present.kind = "Error" ->
                        Replaced(<<"NotPresent">>, <<>>)
                   [] config.on_not_present.kind = "Passthrough" ->
                        Replaced(<<>>, all)
                   [] config.on_not_present.kind = "Default" ->
                        Replaced(<<>>, <<>>)
        ELSE Replaced(<<value.error>>, <<>>)

\* Nothing is copied after the last match.
Rest_Dropped(s, from) == <<>>

\* The text replace_all copies after the last match.
Rest(s, from) == SubSeq(s, from, Len(s))

\* The first recorded error is returned.
SubstituteResult_First(errs, text) ==
    IF errs # <<>> THEN Err(errs[1]) ELSE Ok(text)

\* errors.pop() decides the result of substitute.
SubstituteResult(errs, text) ==
    IF errs # <<>> THEN Err(errs[Len(errs)]) ELSE Ok(text)

----------------------------------------------------------------------------
\* Inputs: texts, configurations and value sources.

Frags ==
    { <<"$">>, <<"\\">>, <<"%">>, <<"b">>, <<"-">>, <<"}">>,
      <<"$", "a">>, <<"$", "b">>, <<"$", "{", "a">>, <<"$", "{", "a", "}">>,
      <<"$", "{", "a", "-", "b", "}">>, <<"%", "a", "%">> }

EnvFrags ==
    { <<"$">>, <<"=">>, <<Nul>>, <<"b">>,
      <<"$", "a">>, <<"$", "b">>, <<"$", "{", "a", "}">>,
      <<"$", "{", "b", "-", "a", "}">> }

\* The texts made of at most n fragments.
RECURSIVE Texts(_, _)
Texts(frags, n) ==
    IF n = 0 THEN {<<>>}
    ELSE LET shorter == Texts(frags, n - 1)
         IN  shorter \cup {t \o f : t \in shorter, f \in frags}

AVal == <<"$", "b">>

BVal == <<"b">>

Policies ==
    { OnNotPresentError, OnNotPresentPassthrough,
      OnNotPresentDefault(<<>>), OnNotPresentDefault(<<"a">>) }

\* The fields of Config are public: every pattern with every policy.
Configs ==
    { [c EXCEPT !.on_not_present = p] : c \in {bash, docker, cmd}, p \in Policies }

EnvEntries ==
    { [state |-> "Unset", value |-> <<>>],
      [state |-> "Unicode", value |-> AVal],
      [state |-> "NotUnicode", value |-> <<>>] }

\* Only the name a is known to a source; every other name is absent.
Providers ==
    { [kind |-> "Env", store |-> (<<"a">> :> e)] : e \in EnvEntries }
    \cup
    { [kind |-> "HashMap", store |-> <<>>],
      [kind |-> "HashMap", store |-> (<<"a">> :> AVal)] }
    \cup
    { [kind |-> "Other", store |-> (<<"a">> :> r)] :
         r \in {Ok(AVal)} \cup {Err(e) : e \in Error} }

Environments ==
    { [kind |-> "Env", store |-> (<<"a">> :> ea) @@ (<<"b">> :> eb)] :
         ea \in EnvEntries, eb \in EnvEntries }

----------------------------------------------------------------------------
\* substitute as a state machine: the replacer runs once per match, left to
\* right, then the recorded errors decide the result.

VARIABLES
    config,     \* the Config of the call
    provider,   \* the value source (self)
    on,         \* the text to expand
    pos,        \* where replace_all looks for the next match
    replaced,   \* the text replace_all has built so far
    errors,     \* the Vec of recorded errors
    log,        \* one record per call of the replacer
    pc,         \* "scan" inside replace_all, "done" after substitute returned
    result      \* what substitute returned

vars == <<config, provider, on, pos, replaced, errors, log, pc, result>>

NoResult == [tag |-> "None", value |-> <<>>, error |-> "None"]

Start ==
    /\ pos = 1
    /\ replaced = <<>>
    /\ errors = <<>>
    /\ log = <<>>
    /\ pc = "scan"
    /\ result = NoResult

\* ValueProivder::substitute with any configuration, source and text.
Init ==
    /\ config \in Configs
    /\ provider \in Providers
    /\ on \in Texts(Frags, MaxFrags)
    /\ Start

\* env(expand): Env.substitute(&BASH, expand)
InitEnv ==
    /\ config = BASH
    /\ provider \in Environments
    /\ on \in Texts(EnvFrags, MaxFrags)
    /\ Start

\* replace_all found the next match and calls the replacer on it.
ReplaceMatch ==
    /\ pc = "scan"
    /\ LET m == FindMatch(config.pattern, on, pos)
       IN  /\ m.found
           /\ LET r == Replacer(config, provider, m.groups)
              IN  /\ replaced' = replaced \o SubSeq(on, pos, m.start - 1) \o r.result
                  /\ errors' = errors \o r.error
                  /\ log' = Append(log,
                        [start |-> m.start, end |-> m.end,
                         name |-> CaptureName(m.groups),
                         value |-> Get(provider, CaptureName(m.groups)),
                         error |-> r.error, result |-> r.result])
           /\ pos' = m.end + 1
    /\ UNCHANGED <<config, provider, on, pc, result>>

\* No match is left: replace_all returns and substitute pops the last error.
Return ==
    /\ pc = "scan"
    /\ ~FindMatch(config.pattern, on, pos).found
    /\ replaced' = replaced \o Rest(on, pos)
    /\ result' = SubstituteResult(errors, replaced')
    /\ errors' = IF errors = <<>> THEN errors ELSE SubSeq(errors, 1, Len(errors) - 1)
    /\ pos' = Len(on) + 1
    /\ pc' = "done"
    /\ UNCHANGED <<config, provider, on, log>>

Next == ReplaceMatch \/ Return

Spec == Init /\ [][Next]_vars

SpecEnv == InitEnv /\ [][Next]_vars

----------------------------------------------------------------------------
\* Vocabulary of the properties, read off the input text and the log.

Matches == 1..Len(log)

\* The matched span of the i-th match, as it stands in the input.
SpanText(i) == SubSeq(on, log[i].start, log[i].end)

HasInlineDefault(i) == \E k \in 1..Len(SpanText(i)) : SpanText(i)[k] = "-"

\* The text between '-' and '}' of a match of the form ${NAME-default}.
InlineDefault(i) ==
    LET t == SpanText(i)
        k == CHOOSE k \in 1..Len(t) : t[k] = "-"
    IN  SubSeq(t, k + 1, Len(t) - 1)

\* The name of a bash match, read off its span: $NAME, ${NAME} or ${NAME-...}.
RECURSIVE WordPrefix(_)
WordPrefix(t) ==
    IF t # <<>> /\ Head(t) \in {"a", "b"} THEN <<Head(t)>> \o WordPrefix(Tail(t))
    ELSE <<>>

BashSpanName(i) ==
    LET t == SpanText(i)
    IN  IF t[2] = "{" THEN WordPrefix(SubSeq(t, 3, Len(t)))
        ELSE WordPrefix(SubSeq(t, 2, Len(t)))

NotPresentAt(i) == log[i].value = Err("NotPresent")

OtherFailureAt(i) ==
    log[i].value.tag = "Err" /\ log[i].value.error \in {"InvalidName", "InvalidValue"}

Recorded(i) == log[i].error # <<>>

\* The input with every processed match replaced by what the replacer gave.
RECURSIVE Spliced(_, _)
Spliced(k, upto) ==
    IF k = 0 THEN SubSeq(on, 1, upto)
    ELSE Spliced(k - 1, log[k].start - 1) \o log[k].result
         \o SubSeq(on, log[k].end + 1, upto)

\* The number of non-overlapping matches of the pattern from a position on.
RECURSIVE CountMatches(_, _, _)
CountMatches(pattern, s, from) ==
    IF from > Len(s) THEN 0
    ELSE IF MatchAt(pattern, s, from).found
         THEN 1 + CountMatches(pattern, s, MatchAt(pattern, s, from).end + 1)
         ELSE CountMatches(pattern, s, from + 1)

Done == pc = "done"

----------------------------------------------------------------------------
\* C1: a match that captured an inline default and whose name the source
\* reports as NotPresent is replaced by exactly the default text and records
\* no error, under each of the three policies.
C1_InlineDefaultWins ==
    \A i \in Matches :
        (HasInlineDefault(i) /\ NotPresentAt(i)) =>
            /\ log[i].result = InlineDefault(i)
            /\ ~Recorded(i)
            /\ Done => (result.tag = "Err" => \E j \in Matches : j # i /\ Recorded(j))

C1_Witness ==
    /\ Done
    /\ config.on_not_present.kind = "Error"
    /\ \E i \in Matches : HasInlineDefault(i) /\ NotPresentAt(i)
    /\ result = Ok(<<"b">>)

\* C2 as stated: under policy Error an absent placeholder without inline
\* default makes substitute return Err(NotPresent).
C2_AlwaysNotPresent ==
    (/\ Done
     /\ config.on_not_present.kind = "Error"
     /\ \E i \in Matches : ~HasInlineDefault(i) /\ NotPresentAt(i))
        => result = Err("NotPresent")

\* C2 amended: under policy Error an absent placeholder without inline default
\* makes substitute return Err and no text; the error is the one of the last
\* match that fails without an inline default to rescue it, so it is
\* NotPresent unless a later match fails with InvalidName or InvalidValue and
\* no absent placeholder without inline default follows that one.
C2_ErrorPolicyFails ==
    (Done /\ config.on_not_present.kind = "Error") =>
        \A i \in Matches :
            (~HasInlineDefault(i) /\ NotPresentAt(i)) =>
                LET Fails(k) == \/ ~HasInlineDefault(k) /\ NotPresentAt(k)
                                \/ OtherFailureAt(k)
                    last == CHOOSE k \in Matches :
                                /\ k >= i /\ Fails(k)
                                /\ \A n \in Matches : (n > k) => ~Fails(n)
                IN  /\ result.tag = "Err"
                    /\ result.value = <<>>
                    /\ result.error = log[last].value.error
                    /\ (\A j \in Matches : (j > i) => ~OtherFailureAt(j))
                          => result.error = "NotPresent"

C2_Witness ==
    /\ Done
    /\ config.on_not_present.kind = "Error"
    /\ \E i, j \in Matches :
          /\ i < j
          /\ ~HasInlineDefault(i) /\ NotPresentAt(i)
          /\ log[j].value.tag = "Ok"
    /\ result = Err("NotPresent")

\* C3: once every match is processed, substitute returns Err with the error of
\* the last match that recorded one and no text, and Ok(text) only when no
\* match recorded an error.
C3_LastErrorWins ==
    Done =>
        IF \E i \in Matches : Recorded(i)
        THEN LET last == CHOOSE i \in Matches :
                            Recorded(i) /\ \A k \in Matches : (k > i) => ~Recorded(k)
             IN  result = Err(log[last].error[1])
        ELSE result = Ok(replaced)

C3_Witness ==
    /\ Done
    /\ \E i, j \in Matches :
          /\ i < j /\ Recorded(i) /\ Recorded(j)
          /\ log[i].error # log[j].error
          /\ result = Err(log[j].error[1])

\* C4: in the bash dialect an escaped '$' starts no placeholder and the output
\* holds the '$' with the backslash removed: \$LITERAL gives $LITERAL.
C4_EscapeRemoved ==
    (/\ Done
     /\ config.pattern = "bash"
     /\ Len(on) >= 3 /\ on[1] = "\\" /\ on[2] = "$"
     /\ \A k \in 3..Len(on) : IsWordChar(on[k]))
        => log = <<>> /\ result = Ok(Tail(on))

\* C5: in the bash dialect $NAME and ${NAME} with a name the source resolves
\* are replaced by exactly the resolved value, which is not scanned again, and
\* the text outside the matched spans is kept as it is, in order.
C5_ResolvedVerbatim ==
    config.pattern = "bash" =>
        /\ \A i \in Matches :
              Get(provider, BashSpanName(i)).tag = "Ok" =>
                  /\ log[i].result = Get(provider, BashSpanName(i)).value
                  /\ ~Recorded(i)
        /\ replaced = Spliced(Len(log), pos - 1)
        /\ (Done /\ result.tag = "Ok") => result.value = Spliced(Len(log), Len(on))

C5_Witness ==
    /\ Done
    /\ config.pattern = "bash"
    /\ on = <<"$", "a", "$", "{", "a", "}">>
    /\ result = Ok(<<"$", "b", "$", "b">>)

\* C6: under Passthrough an absent placeholder without inline default is
\* replaced by its own matched span and records no error; the call succeeds
\* when no other match records one.
C6_Passthrough ==
    config.on_not_present.kind = "Passthrough" =>
        /\ \A i \in Matches :
              (~HasInlineDefault(i) /\ NotPresentAt(i)) =>
                  log[i].result = SpanText(i) /\ ~Recorded(i)
        /\ (Done /\ \A i \in Matches : ~OtherFailureAt(i)) => result.tag = "Ok"

C6_Witness ==
    /\ Done
    /\ config.on_not_present.kind = "Passthrough"
    /\ \E i \in Matches : NotPresentAt(i) /\ ~HasInlineDefault(i) /\ Len(SpanText(i)) > 2
    /\ result = Ok(on)

\* C7: when the pattern has no match in the input, substitute returns Ok with
\* the input as it is and asks the value source nothing, for every dialect,
\* policy and source.
C7_NoMatchIdentity ==
    (Done /\ \A i \in 1..Len(on) : ~MatchAt(config.pattern, on, i).found)
        => result = Ok(on) /\ log = <<>> /\ errors = <<>>

C7_Witness ==
    /\ Done
    /\ \A i \in 1..Len(on) : ~MatchAt(config.pattern, on, i).found
    /\ on = <<"$", "$", "a">>
    /\ result = Ok(on)

\* C8: under Default(fallback) an absent placeholder without inline default is
\* replaced by the empty text whatever the fallback is, and records no error;
\* the call succeeds when no other match records one.
C8_DefaultIsEmpty ==
    config.on_not_present.kind = "Default" =>
        /\ \A i \in Matches :
              (~HasInlineDefault(i) /\ NotPresentAt(i)) =>
                  log[i].result = <<>> /\ ~Recorded(i)
        /\ (Done /\ \A i \in Matches : ~OtherFailureAt(i)) => result.tag = "Ok"

C8_Witness ==
    /\ Done
    /\ config.on_not_present = OnNotPresentDefault(<<"a">>)
    /\ \E i \in Matches : NotPresentAt(i) /\ ~HasInlineDefault(i)
    /\ result = Ok(<<>>)

\* C9: a match whose name the source fails with InvalidName or InvalidValue
\* records that error and is replaced by the empty text, whatever the policy
\* and whether or not it captured an inline default, and every remaining match
\* is still processed.
C9_OtherFailureRecorded ==
    /\ \A i \in Matches :
          OtherFailureAt(i) =>
              log[i].error = <<log[i].value.error>> /\ log[i].result = <<>>
    /\ Done => Len(log) = CountMatches(config.pattern, on, 1)

C9_Witness ==
    /\ Done
    /\ config.on_not_present.kind = "Passthrough"
    /\ \E i, j \in Matches :
          /\ i < j
          /\ HasInlineDefault(i)
          /\ log[i].value = Err("InvalidName")
          /\ NotPresentAt(j)
    /\ result = Err("InvalidName")

\* C10: env never returns NotPresent nor InvalidName: a name captured by the
\* bash pattern holds word characters only, so the check of the environment
\* source for '=' and NUL never fires, and Default("") turns every absent name
\* into the empty text; InvalidValue is the only error env returns.
C10_EnvOnlyInvalidValue ==
    /\ \A i \in Matches :
          /\ \A k \in 1..Len(log[i].name) :
                ~invalid_varible_name_pattern(log[i].name[k])
          /\ log[i].value.tag = "Err" =>
                log[i].value.error \in {"NotPresent", "InvalidValue"}
          /\ Recorded(i) => log[i].error = <<"InvalidValue">>
    /\ Done => (result.tag = "Ok" \/ result = Err("InvalidValue"))

C10_Witness ==
    /\ Done
    /\ \E i \in Matches :
          /\ NotPresentAt(i)
          /\ At(on, log[i].end + 1) \in {"=", Nul}
    /\ result.tag = "Ok"

====
